---- MODULE Spec2Model ----
(***************************************************************************)
(* Model of netlify_function.js: the exports.handler request pipeline      *)
(* (method routing, request validation, credential check, upstream call,   *)
(* completion cleaning, JSON parsing, question normalisation, response).   *)
(*                                                                         *)
(* Text representation.  A JavaScript string is a sequence of characters   *)
(* (one-character TLA+ strings).  A text that is handed to JSON.parse is a *)
(* sequence of tokens [t, s]: t = "p" is one raw character s[1] (a brace,  *)
(* a bracket, a backtick, a letter of prose, white space ...), t = "s" is  *)
(* a JSON string literal with characters s, t = "n" a JSON number literal  *)
(* with digits s, t = "k" one of the literals null, true, false.  The      *)
(* lexing of literals is therefore taken as given (the literals of the     *)
(* modelled texts hold no brace and no backtick); everything the handler   *)
(* does on the text (regex replaces, trim, indexOf, substring) and the     *)
(* structural parse are computed.  An uncaught TypeError ends the handler  *)
(* at pc = "threw" with no response.                                       *)
(***************************************************************************)
EXTENDS Integers, Sequences, FiniteSets, TLC

VARIABLES
  event,            \* the inbound request: httpMethod and body
  apiKey,           \* process.env.NVIDIA_API_KEY
  pc,               \* the handler's position
  response,         \* the returned response object, once pc = "returned"
  fetchCalls,       \* number of fetch calls made so far
  upstreamRequest,  \* what the fetch call sent
  apiResponse,      \* what the upstream answered
  body,             \* the parsed request body
  rawContent,       \* apiData.choices?.[0]?.message?.content || ''
  parsed,           \* JSON.parse(cleaned)
  questions,        \* the filtered and mapped questions
  logged            \* console.error output

vars == <<event, apiKey, pc, response, fetchCalls, upstreamRequest,
          apiResponse, body, rawContent, parsed, questions, logged>>

-----------------------------------------------------------------------------
(* JavaScript strings                                                      *)

\* The backtick character (U+0060), which a TLA+ string literal cannot hold.
Tick == "tick"

IsWs(c) == c \in {" ", "\n", "\t"}

Min(a, b) == IF a < b THEN a ELSE b
Max(a, b) == IF a > b THEN a ELSE b

\* String.prototype.substring(a, b): 0-based, end exclusive, clamped.
Substring(s, a, b) ==
  LET lo == Max(0, Min(a, Len(s)))
      hi == Max(0, Min(b, Len(s)))
  IN  SubSeq(s, Min(lo, hi) + 1, Max(lo, hi))

\* Array.prototype.slice(0, n) for n >= 0.
Slice0(s, n) == SubSeq(s, 1, Min(n, Len(s)))

RECURSIVE DropLeadingWs(_)
DropLeadingWs(s) ==
  IF s # <<>> /\ IsWs(Head(s)) THEN DropLeadingWs(Tail(s)) ELSE s

RECURSIVE DropTrailingWs(_)
DropTrailingWs(s) ==
  IF s # <<>> /\ IsWs(s[Len(s)]) THEN DropTrailingWs(SubSeq(s, 1, Len(s) - 1)) ELSE s

\* String.prototype.trim()
Trim(s) == DropTrailingWs(DropLeadingWs(s))

LowerChar(c) ==
  CASE c = "A" -> "a" [] c = "B" -> "b" [] c = "F" -> "f" [] c = "J" -> "j"
    [] c = "N" -> "n" [] c = "O" -> "o" [] c = "Q" -> "q" [] c = "S" -> "s"
    [] c = "X" -> "x"
    [] OTHER -> c

\* String.prototype.toLowerCase()
ToLowerCase(s) == [i \in 1..Len(s) |-> LowerChar(s[i])]

\* String.prototype.startsWith(prefix)
StartsWith(s, prefix) ==
  Len(s) >= Len(prefix) /\ SubSeq(s, 1, Len(prefix)) = prefix

\* Array.prototype.includes(x)
Includes(seq, x) == \E i \in 1..Len(seq) : seq[i] = x

\* Decimal digits of a small natural number (String(n), JSON.stringify(n)).
DigitChar(d) ==
  CASE d = 0 -> "0" [] d = 1 -> "1" [] d = 2 -> "2" [] d = 3 -> "3" [] d = 4 -> "4"
    [] d = 5 -> "5" [] d = 6 -> "6" [] d = 7 -> "7" [] d = 8 -> "8" [] OTHER -> "9"

RECURSIVE Decimal(_)
Decimal(n) ==
  IF n < 10 THEN <<DigitChar(n)>> ELSE Append(Decimal(n \div 10), DigitChar(n % 10))

-----------------------------------------------------------------------------
(* Texts as token sequences                                                *)

Ch(c)   == [t |-> "p", s |-> <<c>>]
StrTok(s) == [t |-> "s", s |-> s]
NumTok(d) == [t |-> "n", s |-> d]
KwTok(w)  == [t |-> "k", s |-> <<w>>]

\* The text of raw characters cs.
Chars(cs) == [i \in 1..Len(cs) |-> Ch(cs[i])]

IsWsTok(k) == k.t = "p" /\ IsWs(k.s[1])
IsChar(k, c) == k = Ch(c)
\* the regex letter classes are case insensitive (flag i)
IsCharI(k, c) == k.t = "p" /\ LowerChar(k.s[1]) = c

RECURSIVE DropLeadingWsTok(_)
DropLeadingWsTok(x) ==
  IF x # <<>> /\ IsWsTok(Head(x)) THEN DropLeadingWsTok(Tail(x)) ELSE x

RECURSIVE DropTrailingWsTok(_)
DropTrailingWsTok(x) ==
  IF x # <<>> /\ IsWsTok(x[Len(x)])
  THEN DropTrailingWsTok(SubSeq(x, 1, Len(x) - 1)) ELSE x

TrimText(x) == DropTrailingWsTok(DropLeadingWsTok(x))

\* String.prototype.indexOf(c): 0-based, -1 when absent.
IndexOf(x, c) ==
  IF \E i \in 1..Len(x) : IsChar(x[i], c)
  THEN (CHOOSE i \in 1..Len(x) :
          IsChar(x[i], c) /\ \A j \in 1..(i - 1) : ~IsChar(x[j], c)) - 1
  ELSE -1

\* String.prototype.lastIndexOf(c): 0-based, -1 when absent.
LastIndexOf(x, c) ==
  IF \E i \in 1..Len(x) : IsChar(x[i], c)
  THEN (CHOOSE i \in 1..Len(x) :
          IsChar(x[i], c) /\ \A j \in (i + 1)..Len(x) : ~IsChar(x[j], c)) - 1
  ELSE -1

StartsWithFence(x) ==
  Len(x) >= 3 /\ IsChar(x[1], Tick) /\ IsChar(x[2], Tick) /\ IsChar(x[3], Tick)

StartsWithJsonFence(x) ==
  /\ StartsWithFence(x) /\ Len(x) >= 7
  /\ IsCharI(x[4], "j") /\ IsCharI(x[5], "s") /\ IsCharI(x[6], "o") /\ IsCharI(x[7], "n")

\* .replace(/^<fence>json\s*/i, ''), <fence> being three backticks
StripJsonFence(x) ==
  IF StartsWithJsonFence(x) THEN DropLeadingWsTok(SubSeq(x, 8, Len(x))) ELSE x

\* .replace(/^<fence>\s*/i, '')
StripOpenFence(x) ==
  IF StartsWithFence(x) THEN DropLeadingWsTok(SubSeq(x, 4, Len(x))) ELSE x

\* .replace(/\s*<fence>\s*$/i, ''): the leftmost match is the maximal white space
\* run before the closing fence, the fence, and the white space after it.
StripCloseFence(x) ==
  LET y == DropTrailingWsTok(x)
      n == Len(y)
  IN  IF n >= 3 /\ IsChar(y[n], Tick) /\ IsChar(y[n - 1], Tick) /\ IsChar(y[n - 2], Tick)
      THEN DropTrailingWsTok(SubSeq(y, 1, n - 3))
      ELSE x

StripFences(raw) == TrimText(StripCloseFence(StripOpenFence(StripJsonFence(raw))))

\* a slice that stops one character early
BraceSlice_EndExclusive(cleaned) ==
  LET jsonStart == IndexOf(cleaned, "{")
      jsonEnd   == LastIndexOf(cleaned, "}")
  IN  IF jsonStart > 0 /\ jsonEnd > jsonStart
      THEN Substring(cleaned, jsonStart, jsonEnd)
      ELSE cleaned

BraceSlice(cleaned) ==
  LET jsonStart == IndexOf(cleaned, "{")
      jsonEnd   == LastIndexOf(cleaned, "}")
  IN  IF jsonStart > 0 /\ jsonEnd > jsonStart
      THEN Substring(cleaned, jsonStart, jsonEnd + 1)
      ELSE cleaned

CleanCompletion(raw) == BraceSlice(StripFences(raw))

-----------------------------------------------------------------------------
(* JSON values and JSON.parse                                              *)

Undefined == [ty |-> "undef"]
Null      == [ty |-> "null"]
BoolV(b)  == [ty |-> "bool", b |-> b]
StrV(s)   == [ty |-> "str", s |-> s]
NumV(d)   == [ty |-> "num", s |-> d]
ArrV(xs)  == [ty |-> "arr", items |-> xs]
ObjV(f)   == [ty |-> "obj", f |-> f]

NoFields == [k \in {} |-> Undefined]
WithField(f, key, v) ==
  [k \in DOMAIN f \cup {key} |-> IF k = key THEN v ELSE f[k]]

ParseFail == [ok |-> FALSE, v |-> Undefined, i |-> 0]
ParseOk(v, i) == [ok |-> TRUE, v |-> v, i |-> i]

RECURSIVE ParseValue(_, _), ParseItems(_, _, _), ParseMembers(_, _, _)

ParseValue(t, i) ==
  IF i > Len(t) THEN ParseFail
  ELSE LET k == t[i] IN
    CASE k.t = "s" -> ParseOk(StrV(k.s), i + 1)
      [] k.t = "n" -> ParseOk(NumV(k.s), i + 1)
      [] k.t = "k" -> ParseOk(IF k.s = <<"null">> THEN Null ELSE BoolV(k.s = <<"true">>), i + 1)
      [] IsChar(k, "[") ->
           IF i + 1 <= Len(t) /\ IsChar(t[i + 1], "]")
           THEN ParseOk(ArrV(<<>>), i + 2)
           ELSE ParseItems(t, i + 1, <<>>)
      [] IsChar(k, "{") ->
           IF i + 1 <= Len(t) /\ IsChar(t[i + 1], "}")
           THEN ParseOk(ObjV(NoFields), i + 2)
           ELSE ParseMembers(t, i + 1, NoFields)
      [] OTHER -> ParseFail

ParseItems(t, i, acc) ==
  LET r == ParseValue(t, i) IN
    IF ~r.ok \/ r.i > Len(t) THEN ParseFail
    ELSE IF IsChar(t[r.i], ",") THEN ParseItems(t, r.i + 1, Append(acc, r.v))
    ELSE IF IsChar(t[r.i], "]") THEN ParseOk(ArrV(Append(acc, r.v)), r.i + 1)
    ELSE ParseFail

ParseMembers(t, i, acc) ==
  IF i + 1 > Len(t) \/ t[i].t # "s" \/ ~IsChar(t[i + 1], ":") THEN ParseFail
  ELSE LET r == ParseValue(t, i + 2) IN
    IF ~r.ok \/ r.i > Len(t) THEN ParseFail
    ELSE IF IsChar(t[r.i], ",") THEN ParseMembers(t, r.i + 1, WithField(acc, t[i].s, r.v))
    ELSE IF IsChar(t[r.i], "}") THEN ParseOk(ObjV(WithField(acc, t[i].s, r.v)), r.i + 1)
    ELSE ParseFail

\* JSON.parse(text): [ok |-> FALSE] stands for the SyntaxError it throws.
\* White space between tokens is insignificant.
JSONParse(text) ==
  LET t == SelectSeq(text, LAMBDA k : ~IsWsTok(k))
      r == ParseValue(t, 1)
  IN  IF r.ok /\ r.i = Len(t) + 1
      THEN [ok |-> TRUE, v |-> r.v]
      ELSE [ok |-> FALSE, v |-> Undefined]

-----------------------------------------------------------------------------
(* JavaScript value semantics used by the handler                          *)

\* Property read v.key on a value that is neither null nor undefined.
Get(v, key) ==
  IF v.ty = "obj" /\ key \in DOMAIN v.f THEN v.f[key] ELSE Undefined

\* v.key throws a TypeError exactly when v is null or undefined.
IsNullish(v) == v.ty \in {"null", "undef"}

\* ToBoolean(v)
Truthy(v) ==
  CASE v.ty \in {"undef", "null"} -> FALSE
    [] v.ty = "bool" -> v.b
    [] v.ty = "str"  -> v.s # <<>>
    [] v.ty = "num"  -> v.s # <<"0">>
    [] OTHER -> TRUE

IsArray(v) == v.ty = "arr"

RECURSIVE JoinStrings(_)
\* the strings of a list joined with ","
JoinStrings(ss) ==
  IF ss = <<>> THEN <<>>
  ELSE IF Len(ss) = 1 THEN ss[1]
  ELSE ss[1] \o <<",">> \o JoinStrings(Tail(ss))

RECURSIVE JsString(_)
\* String(v)
JsString(v) ==
  CASE v.ty = "str"   -> v.s
    [] v.ty = "num"   -> v.s
    [] v.ty = "null"  -> <<"n", "u", "l", "l">>
    [] v.ty = "undef" -> <<"u", "n", "d", "e", "f", "i", "n", "e", "d">>
    [] v.ty = "bool"  -> IF v.b THEN <<"t", "r", "u", "e">> ELSE <<"f", "a", "l", "s", "e">>
    [] v.ty = "arr"   ->
         JoinStrings([i \in 1..Len(v.items) |->
                        IF IsNullish(v.items[i]) THEN <<>> ELSE JsString(v.items[i])])
    [] OTHER -> <<"[", "o", "b", "j", "e", "c", "t", " ", "O", "b", "j", "e", "c", "t", "]">>

-----------------------------------------------------------------------------
(* Property names and literals of the source                               *)

KeyContent     == <<"c", "o", "n", "t", "e", "n", "t">>
KeyMode        == <<"m", "o", "d", "e">>
KeyQuestions   == <<"q", "u", "e", "s", "t", "i", "o", "n", "s">>
KeyTotal       == <<"t", "o", "t", "a", "l">>
KeyId          == <<"i", "d">>
KeyType        == <<"t", "y", "p", "e">>
KeyQuestion    == <<"q", "u", "e", "s", "t", "i", "o", "n">>
KeyOptions     == <<"o", "p", "t", "i", "o", "n", "s">>
KeyAnswer      == <<"a", "n", "s", "w", "e", "r">>
KeyExplanation == <<"e", "x", "p", "l", "a", "n", "a", "t", "i", "o", "n">>
KeyKeywords    == <<"k", "e", "y", "w", "o", "r", "d", "s">>

TypeObjective  == <<"o", "b", "j", "e", "c", "t", "i", "v", "e">>
TypeSubjective == <<"s", "u", "b", "j", "e", "c", "t", "i", "v", "e">>
TypeTheory     == <<"t", "h", "e", "o", "r", "y">>
ModeRevision   == <<"r", "e", "v", "i", "s", "i", "o", "n">>
KeyPrefix      == <<"n", "v", "a", "p", "i", "-">>

OptionLabel(c) == <<"O", "p", "t", "i", "o", "n", " ", c>>
DefaultOptions == <<OptionLabel("A"), OptionLabel("B"), OptionLabel("C"), OptionLabel("D")>>
DefaultExplanation ==
  <<"R", "e", "f", "e", "r", " ", "t", "o", " ", "y", "o", "u", "r", " ",
    "s", "t", "u", "d", "y", " ", "m", "a", "t", "e", "r", "i", "a", "l", "s", ".">>

MinContentLength == 30
ContentBudget    == 13000
ErrBodyBudget    == 200
LogSnippetBudget == 500
MinOptions       == 2
MaxOptions       == 4
MaxKeywords      == 10
MinQuestions     == 5

CORS_HEADERS ==
  [ AccessControlAllowOrigin  |-> "*",
    AccessControlAllowMethods |-> "POST, OPTIONS",
    AccessControlAllowHeaders |-> "Content-Type",
    ContentType               |-> "application/json" ]

-----------------------------------------------------------------------------
(* Validate & normalise (the filter and the map over parsed.questions)     *)

\* a filter that keeps only the three recognised type tags
IsRetained_RecognisedOnly(q) ==
  /\ Truthy(q)
  /\ Get(q, KeyType) \in {StrV(TypeObjective), StrV(TypeSubjective), StrV(TypeTheory)}
  /\ Truthy(Get(q, KeyQuestion))
  /\ Truthy(Get(q, KeyAnswer))

\* .filter(q => q && q.type && q.question && q.answer)
IsRetained(q) ==
  /\ Truthy(q)
  /\ Truthy(Get(q, KeyType))
  /\ Truthy(Get(q, KeyQuestion))
  /\ Truthy(Get(q, KeyAnswer))

\* the options of an objective record
ObjectiveOptions(q) ==
  LET o == Get(q, KeyOptions) IN
    IF IsArray(o) /\ Len(o.items) >= MinOptions
    THEN [i \in 1..Min(MaxOptions, Len(o.items)) |-> JsString(o.items[i])]
    ELSE DefaultOptions

\* the callback of .map((q, i) => ...): i is the 0-based index in the filtered array
NormalizeQuestion(q, i) ==
  LET type == Get(q, KeyType) IN
    IF type = StrV(TypeObjective) THEN
      LET opts == ObjectiveOptions(q)
          expl == Get(q, KeyExplanation)
      IN  [ id          |-> i + 1,
            type        |-> TypeObjective,
            question    |-> Trim(JsString(Get(q, KeyQuestion))),
            options     |-> opts,
            answer      |-> IF Includes(opts, JsString(Get(q, KeyAnswer)))
                            THEN JsString(Get(q, KeyAnswer)) ELSE opts[1],
            explanation |-> Trim(IF Truthy(expl) THEN JsString(expl)
                                 ELSE DefaultExplanation) ]
    ELSE IF type = StrV(TypeSubjective) THEN
      [ id       |-> i + 1,
        type     |-> TypeSubjective,
        question |-> Trim(JsString(Get(q, KeyQuestion))),
        answer   |-> ToLowerCase(Trim(JsString(Get(q, KeyAnswer)))) ]
    ELSE
      LET kw == Get(q, KeyKeywords) IN
      [ id       |-> i + 1,
        type     |-> TypeTheory,
        question |-> Trim(JsString(Get(q, KeyQuestion))),
        answer   |-> Trim(JsString(Get(q, KeyAnswer))),
        keywords |-> IF IsArray(kw)
                     THEN Slice0([j \in 1..Len(kw.items) |-> JsString(kw.items[j])],
                                 MaxKeywords)
                     ELSE <<>> ]

\* a map that numbers the elements before the filter drops any
NormalizeQuestions_IndexBeforeFilter(items) ==
  LET all  == [i \in 1..Len(items) |-> [q |-> items[i], i |-> i]]
      kept == SelectSeq(all, LAMBDA e : IsRetained(e.q))
  IN  [k \in 1..Len(kept) |-> NormalizeQuestion(kept[k].q, kept[k].i - 1)]

\* const questions = parsed.questions.filter(...).map(...)
NormalizeQuestions(items) ==
  LET kept == SelectSeq(items, IsRetained)
  IN  [k \in 1..Len(kept) |-> NormalizeQuestion(kept[k], k - 1)]

-----------------------------------------------------------------------------
(* JSON.stringify of the success payload                                   *)

RECURSIVE JoinTexts(_)
\* the texts of a list joined with ","
JoinTexts(ts) ==
  IF ts = <<>> THEN <<>>
  ELSE IF Len(ts) = 1 THEN ts[1]
  ELSE ts[1] \o <<Ch(",")>> \o JoinTexts(Tail(ts))

Member(key, text) == <<StrTok(key), Ch(":")>> \o text
ObjectText(members) == <<Ch("{")>> \o JoinTexts(members) \o <<Ch("}")>>
ArrayText(items)    == <<Ch("[")>> \o JoinTexts(items) \o <<Ch("]")>>
StringsText(ss)     == ArrayText([i \in 1..Len(ss) |-> <<StrTok(ss[i])>>])

\* JSON.stringify of one emitted record: own properties in insertion order
StringifyQuestion(r) ==
  LET common == << Member(KeyId, <<NumTok(Decimal(r.id))>>),
                   Member(KeyType, <<StrTok(r.type)>>),
                   Member(KeyQuestion, <<StrTok(r.question)>>) >>
  IN  IF r.type = TypeObjective THEN
        ObjectText(common \o << Member(KeyOptions, StringsText(r.options)),
                                Member(KeyAnswer, <<StrTok(r.answer)>>),
                                Member(KeyExplanation, <<StrTok(r.explanation)>>) >>)
      ELSE IF r.type = TypeSubjective THEN
        ObjectText(common \o << Member(KeyAnswer, <<StrTok(r.answer)>>) >>)
      ELSE
        ObjectText(common \o << Member(KeyAnswer, <<StrTok(r.answer)>>),
                                Member(KeyKeywords, StringsText(r.keywords)) >>)

\* JSON.stringify({ questions, total })
JSONStringify(payload) ==
  ObjectText(<< Member(KeyQuestions,
                       ArrayText([i \in 1..Len(payload.questions) |->
                                    StringifyQuestion(payload.questions[i])])),
                Member(KeyTotal, <<NumTok(Decimal(payload.total))>>) >>)

-----------------------------------------------------------------------------
(* Responses                                                               *)

\* body holds the value handed to JSON.stringify ('' for the preflight reply)
Reply(status, payload) ==
  [statusCode |-> status, headers |-> CORS_HEADERS, body |-> payload]

EmptyBody      == [kind |-> "empty"]
ErrorBody(msg) == [kind |-> "error", error |-> msg]
ResultBody(qs) == [kind |-> "result", questions |-> qs, total |-> Len(qs)]

NoResponse == [none |-> TRUE]

MsgMethodNotAllowed == <<"Method Not Allowed">>
MsgInvalidBody      == <<"Invalid JSON in request body">>
MsgTooShort         == <<"Content is too short. Please paste more text.">>
MsgBadKey           == <<"NVIDIA_API_KEY is missing or invalid. Go to Netlify -> Site Settings -> Environment Variables and add your key (starts with nvapi-).">>
MsgUnreachable(m)   == <<"Could not reach NVIDIA API: ">> \o m
MsgUpstreamStatus(status, errBody) ==
  <<"NVIDIA API returned ">> \o Decimal(status)
    \o <<". Check your API key. Details: ">> \o Substring(errBody, 0, ErrBodyBudget)
MsgNonJson          == <<"NVIDIA API returned non-JSON response.">>
MsgEmptyContent     == <<"NVIDIA API returned empty content.">>
MsgInvalidJson      == <<"AI returned invalid JSON. Please try again. If problem persists, reduce the content length.">>
MsgMissingQuestions == <<"AI response missing \"questions\" array. Please try again.">>
MsgTooFew(n) ==
  <<"Only ">> \o Decimal(n)
    \o <<" valid questions generated. Please paste more content and try again.">>

\* if (!parsed.questions || !Array.isArray(parsed.questions)), parsed not nullish
HasQuestionsArray(v) ==
  Truthy(Get(v, KeyQuestions)) /\ IsArray(Get(v, KeyQuestions))

\* a viability check that lets one question too few through
FinalReply_OffByOne(qs) ==
  IF Len(qs) < MinQuestions - 1
  THEN Reply(500, ErrorBody(MsgTooFew(Len(qs))))
  ELSE Reply(200, ResultBody(qs))

\* the viability check and the success response
FinalReply(qs) ==
  IF Len(qs) < MinQuestions
  THEN Reply(500, ErrorBody(MsgTooFew(Len(qs))))
  ELSE Reply(200, ResultBody(qs))

\* The normaliser as a function of the completion text: what the handler does
\* from "Clean & parse JSON" to its return.  threw: an uncaught TypeError.
Threw == [threw |-> TRUE, response |-> NoResponse]
Returned(r) == [threw |-> FALSE, response |-> r]

NormalizerOutcome(raw) ==
  LET p == JSONParse(CleanCompletion(raw)) IN
    IF ~p.ok THEN Returned(Reply(500, ErrorBody(MsgInvalidJson)))
    ELSE IF IsNullish(p.v) THEN Threw
    ELSE IF ~HasQuestionsArray(p.v) THEN Returned(Reply(500, ErrorBody(MsgMissingQuestions)))
    ELSE Returned(FinalReply(NormalizeQuestions(Get(p.v, KeyQuestions).items)))

-----------------------------------------------------------------------------
(* Inputs: requests, environment, upstream behaviours                      *)

MaxFill == 3

Repeat(c, n) == [i \in 1..n |-> c]
Str(cs) == <<StrTok(cs)>>

\* request bodies (event.body); absent is a missing body
ContentBody(cs) == ObjectText(<<Member(KeyContent, Str(cs))>>)

RequestTexts ==
  { <<>>,                                                   \* ''
    Chars(<<"n", "o">>),                                    \* not JSON
    <<KwTok("null")>>,                                      \* null
    <<NumTok(<<"7">>)>>,                                    \* 7
    ObjectText(<<>>),                                       \* {}
    ContentBody(<<>>),
    ContentBody(Repeat("x", MinContentLength - 5)),
    ContentBody(Repeat("x", MinContentLength - 1)),
    ContentBody(<<" ", " ">> \o Repeat("x", MinContentLength - 1) \o <<"\n">>),
    ContentBody(Repeat(" ", MinContentLength + 1)),
    ContentBody(Repeat("x", MinContentLength)),
    ObjectText(<< Member(KeyContent, Str(<<" ">> \o Repeat("x", MinContentLength) \o <<" ">>)),
                  Member(KeyMode, Str(ModeRevision)) >>),
    ObjectText(<<Member(KeyContent, <<NumTok(<<"1", "2", "3", "4", "5">>)>>)>>),
    ObjectText(<<Member(KeyContent, <<NumTok(<<"0">>)>>)>>),
    ObjectText(<<Member(KeyContent, <<KwTok("null")>>)>>),
    ObjectText(<<Member(KeyContent, ArrayText(<<>>))>>) }

Events ==
  [ httpMethod : {"OPTIONS", "GET", "POST"},
    body : [present : {TRUE}, text : RequestTexts]
             \cup {[present |-> FALSE, text |-> <<>>]} ]

\* process.env.NVIDIA_API_KEY
ApiKeys ==
  { [present |-> FALSE, value |-> <<>>],
    [present |-> TRUE,  value |-> <<>>],
    [present |-> TRUE,  value |-> <<"s", "k", "-", "1">>],
    [present |-> TRUE,  value |-> KeyPrefix \o <<"k">>] }

\* raw elements of the questions array, as JSON text
Element(members) == ObjectText(members)
Objective(opts, answer) ==
  Element(<< Member(KeyType, Str(TypeObjective)), Member(KeyQuestion, Str(<<"Q", "o">>)),
             Member(KeyOptions, opts), Member(KeyAnswer, Str(answer)) >>)
Letters == <<"a", "b", "c", "d", "e", "f", "g", "h", "i", "j", "k", "l">>
Options(n) == StringsText([i \in 1..n |-> <<Letters[i]>>])

\* a well-formed subjective element carrying its own id 9
Filler(j) ==
  Element(<< Member(KeyId, <<NumTok(<<"9">>)>>), Member(KeyType, Str(TypeSubjective)),
             Member(KeyQuestion, Str(<<"Q", DigitChar(j)>>)),
             Member(KeyAnswer, Str(<<"F", "o", "o", " ", "B", "a", "r">>)) >>)

ExtraElements ==
  { Objective(Options(MaxOptions), <<"b">>),
    Objective(Options(MinOptions), <<"z">>),
    Objective(Options(MaxOptions - 1), <<"c">>),
    Objective(Options(MaxOptions + 1), <<Letters[MaxOptions + 1]>>),
    Objective(Options(MinOptions - 1), <<"a">>),
    Objective(Options(0), <<"a">>),
    Objective(Str(<<"a">>), <<"a">>),
    Objective(StringsText(<< <<>>, <<"b">> >>), <<"z">>),
    Objective(ArrayText(<< <<KwTok("null")>>, <<NumTok(<<"5">>)>> >>), <<"5">>),
    Element(<< Member(KeyType, Str(TypeObjective)), Member(KeyQuestion, Str(<<"Q">>)),
               Member(KeyAnswer, Str(<<"a">>)), Member(KeyExplanation, Str(<<" ", "\n">>)) >>),
    Element(<< Member(KeyType, Str(TypeObjective)), Member(KeyQuestion, Str(<<"Q">>)),
               Member(KeyOptions, Options(MaxOptions)), Member(KeyAnswer, Str(<<"d">>)),
               Member(KeyExplanation, Str(<<" ", "X", " ">>)) >>),
    Element(<< Member(KeyQuestion, Str(<<"Q", "n">>)), Member(KeyAnswer, Str(<<"a">>)) >>),
    Element(<< Member(KeyType, Str(<<>>)), Member(KeyQuestion, Str(<<"Q">>)),
               Member(KeyAnswer, Str(<<"a">>)) >>),
    Element(<< Member(KeyType, Str(<<"e", "s", "s", "a", "y">>)),
               Member(KeyQuestion, Str(<<"Q", "e">>)), Member(KeyAnswer, Str(<<" ", "A", " ">>)),
               Member(KeyKeywords, Options(MaxKeywords + 1)) >>),
    Element(<< Member(KeyType, <<NumTok(<<"5">>)>>), Member(KeyQuestion, <<NumTok(<<"4">>)>>),
               Member(KeyAnswer, <<KwTok("true")>>), Member(KeyKeywords, Str(<<"k">>)) >>),
    Element(<< Member(KeyType, Str(TypeTheory)), Member(KeyQuestion, Str(<<"Q", "t">>)),
               Member(KeyAnswer, Str(<<"A">>)), Member(KeyKeywords, Options(2)) >>),
    Element(<< Member(KeyType, Str(TypeSubjective)), Member(KeyQuestion, Str(<<" ">>)),
               Member(KeyAnswer, Str(<<"a">>)) >>),
    Element(<< Member(KeyType, Str(TypeTheory)), Member(KeyQuestion, Str(<<"Q">>)),
               Member(KeyAnswer, Str(<<"\n">>)) >>),
    Element(<< Member(KeyType, Str(TypeSubjective)), Member(KeyQuestion, Str(<<"Q">>)) >>),
    Element(<< Member(KeyType, Str(TypeSubjective)), Member(KeyAnswer, Str(<<"a">>)) >>),
    <<KwTok("null")>>,
    Str(<<"Q">>) }

\* extras that may also close a list
TailElements ==
  { Objective(Options(MinOptions), <<"b">>),
    Element(<< Member(KeyId, <<NumTok(<<"1">>)>>), Member(KeyQuestion, Str(<<"Q", "m">>)),
               Member(KeyAnswer, Str(<<"a">>)) >>),
    Element(<< Member(KeyId, <<NumTok(<<"1">>)>>), Member(KeyType, Str(<<"q", "u", "i", "z">>)),
               Member(KeyQuestion, Str(<<"Q", "u">>)), Member(KeyAnswer, Str(<<"a">>)) >>) }

\* question lists: a fillers, at most one extra, b fillers, at most one tail extra
QuestionLists ==
  { [i \in 1..a |-> Filler(i)] \o x \o [i \in 1..b |-> Filler(a + i)] \o y :
    a \in 0..MaxFill, b \in 0..MaxFill,
    x \in {<<>>} \cup {<<e>> : e \in ExtraElements},
    y \in {<<>>} \cup {<<e>> : e \in TailElements} }

QuestionsBody(list) == ObjectText(<<Member(KeyQuestions, ArrayText(list))>>)

\* completion texts: leading prose, opening fence, body, closing fence, trailing prose
Fence == <<Ch(Tick), Ch(Tick), Ch(Tick)>>

Completion(prose, open, text, close, trail) ==
  [prose |-> prose, open |-> open, body |-> text, close |-> close, trail |-> trail]

CompletionText(c) == c.prose \o c.open \o c.body \o c.close \o c.trail

Bare(text) == Completion(<<>>, <<>>, text, <<>>, <<>>)

GoodBody == QuestionsBody([i \in 1..MinQuestions |-> Filler(i)])

SmallBodies ==
  { GoodBody,
    QuestionsBody([i \in 1..(MinQuestions - 2) |-> Filler(i)]),
    <<KwTok("null")>>,
    <<NumTok(<<"7">>)>>,
    Str(<<"s">>),
    ArrayText(<<>>),
    ArrayText(<<GoodBody>>),
    ObjectText(<<>>),
    ObjectText(<<Member(KeyQuestions, <<KwTok("null")>>)>>),
    ObjectText(<<Member(KeyQuestions, Str(<<"x">>))>>),
    ObjectText(<<Member(KeyQuestions, ObjectText(<<>>))>>),
    <<Ch("{")>>,
    <<>> }

Proses   == { <<>>, Chars(<<"H", "i", ":", "\n">>), Chars(<<"a", "{", "b", " ">>), Chars(<<" ">>) }
Opens    == { <<>>, Fence, Fence \o Chars(<<"j", "s", "o", "n", "\n">>),
              Fence \o Chars(<<"J", "S", "O", "N">>) }
Closes   == { <<>>, Chars(<<"\n">>) \o Fence, Fence \o Chars(<<"\n">>) }
Trailers == { <<>>, Chars(<<" ", "o", "k">>) }

Completions ==
  { Completion(p, o, t, c, r) :
      p \in Proses, o \in Opens, t \in SmallBodies, c \in Closes, r \in Trailers }
  \cup { Bare(QuestionsBody(l)) : l \in QuestionLists }

\* what the upstream does with the one request it gets
Upstream(kind, status, text, completion) ==
  [kind |-> kind, status |-> status, text |-> text, completion |-> completion]

Upstreams ==
  { Upstream("unreachable", 0, <<"ECONNREFUSED">>, Bare(<<>>)),
    Upstream("status", 401, <<"d", "e", "n", "i", "e", "d">>, Bare(<<>>)),
    Upstream("status", 500, Repeat("e", ErrBodyBudget + 1), Bare(<<>>)),
    Upstream("statusNoText", 503, <<>>, Bare(<<>>)),
    Upstream("notJson", 200, <<>>, Bare(<<>>)),
    Upstream("null", 200, <<>>, Bare(<<>>)),
    Upstream("noChoices", 200, <<>>, Bare(<<>>)),
    Upstream("numberContent", 200, <<>>, Bare(<<>>)) }
  \cup { Upstream("text", 200, <<>>, c) : c \in Completions }

NoUpstream == Upstream("none", 0, <<>>, Bare(<<>>))
NoRequest  == [sent |-> FALSE]

-----------------------------------------------------------------------------
(* The handler                                                             *)

Init ==
  /\ event \in Events
  /\ apiKey \in ApiKeys
  /\ pc = "start"
  /\ response = NoResponse
  /\ fetchCalls = 0
  /\ upstreamRequest = NoRequest
  /\ apiResponse = NoUpstream
  /\ body = Undefined
  /\ rawContent = <<>>
  /\ parsed = Undefined
  /\ questions = <<>>
  /\ logged = <<>>

Return(r) == pc' = "returned" /\ response' = r
Throw     == pc' = "threw" /\ response' = NoResponse
Goto(l)   == pc' = l /\ response' = response

\* if (event.httpMethod === 'OPTIONS')
Preflight ==
  /\ pc = "start"
  /\ event.httpMethod = "OPTIONS"
  /\ Return(Reply(200, EmptyBody))
  /\ UNCHANGED <<event, apiKey, fetchCalls, upstreamRequest, apiResponse, body,
                 rawContent, parsed, questions, logged>>

\* if (event.httpMethod !== 'POST')
MethodCheck ==
  /\ pc = "start"
  /\ event.httpMethod # "OPTIONS"
  /\ IF event.httpMethod # "POST"
     THEN Return(Reply(405, ErrorBody(MsgMethodNotAllowed)))
     ELSE Goto("parse")
  /\ UNCHANGED <<event, apiKey, fetchCalls, upstreamRequest, apiResponse, body,
                 rawContent, parsed, questions, logged>>

\* event.body || '{}'
RequestText(e) ==
  IF e.body.present /\ e.body.text # <<>> THEN e.body.text ELSE ObjectText(<<>>)

\* body = JSON.parse(event.body || '{}'); const { content, mode } = body;
ParseRequest ==
  /\ pc = "parse"
  /\ LET p == JSONParse(RequestText(event)) IN
       IF ~p.ok THEN Return(Reply(400, ErrorBody(MsgInvalidBody))) /\ body' = body
       ELSE IF IsNullish(p.v) THEN Throw /\ body' = p.v
       ELSE Goto("validate") /\ body' = p.v
  /\ UNCHANGED <<event, apiKey, fetchCalls, upstreamRequest, apiResponse,
                 rawContent, parsed, questions, logged>>

\* !content || content.trim().length < 30; content.trim is a function only on strings
ContentCheck(content) ==
  IF ~Truthy(content) THEN "reject"
  ELSE IF content.ty # "str" THEN "throw"
  ELSE IF Len(Trim(content.s)) < MinContentLength THEN "reject"
  ELSE "pass"

ValidateContent ==
  /\ pc = "validate"
  /\ LET c == ContentCheck(Get(body, KeyContent)) IN
       IF c = "reject" THEN Return(Reply(400, ErrorBody(MsgTooShort)))
       ELSE IF c = "throw" THEN Throw
       ELSE Goto("checkKey")
  /\ UNCHANGED <<event, apiKey, fetchCalls, upstreamRequest, apiResponse, body,
                 rawContent, parsed, questions, logged>>

\* !apiKey || !apiKey.startsWith('nvapi-')
KeyOk(k) == k.present /\ k.value # <<>> /\ StartsWith(k.value, KeyPrefix)

CheckApiKey ==
  /\ pc = "checkKey"
  /\ IF ~KeyOk(apiKey)
     THEN Return(Reply(500, ErrorBody(MsgBadKey)))
     ELSE Goto("fetch")
  /\ UNCHANGED <<event, apiKey, fetchCalls, upstreamRequest, apiResponse, body,
                 rawContent, parsed, questions, logged>>

\* the prompt and the request sent to the completion endpoint
ExamFocus(mode) ==
  IF mode = StrV(ModeRevision)
  THEN "Cover all topics in the content evenly."
  ELSE "Focus on high-yield exam topics. Prioritise concepts most likely to appear in pharmacy school exams."

BuildRequest(b, key) ==
  [ sent          |-> TRUE,
    authorization |-> <<"B", "e", "a", "r", "e", "r", " ">> \o key.value,
    model         |-> "meta/llama-3.3-70b-instruct",
    strategy      |-> ExamFocus(Get(b, KeyMode)),
    content       |-> Substring(Get(b, KeyContent).s, 0, ContentBudget),
    stream        |-> FALSE ]

\* apiResponse = await fetch(...)
CallUpstream ==
  /\ pc = "fetch"
  /\ fetchCalls' = fetchCalls + 1
  /\ upstreamRequest' = BuildRequest(body, apiKey)
  /\ \E u \in Upstreams :
       IF u.kind = "unreachable"
       THEN Return(Reply(502, ErrorBody(MsgUnreachable(u.text)))) /\ apiResponse' = apiResponse
       ELSE Goto("status") /\ apiResponse' = u
  /\ UNCHANGED <<event, apiKey, body, rawContent, parsed, questions, logged>>

ResponseOk(u) == u.kind \notin {"status", "statusNoText"}

\* if (!apiResponse.ok) { try { errBody = await apiResponse.text(); } catch {} ... }
CheckStatus ==
  /\ pc = "status"
  /\ IF ~ResponseOk(apiResponse)
     THEN LET errBody == IF apiResponse.kind = "statusNoText" THEN <<>> ELSE apiResponse.text
          IN  Return(Reply(502, ErrorBody(MsgUpstreamStatus(apiResponse.status, errBody))))
     ELSE Goto("json")
  /\ UNCHANGED <<event, apiKey, fetchCalls, upstreamRequest, apiResponse, body,
                 rawContent, parsed, questions, logged>>

\* apiData = await apiResponse.json()
ReadJson ==
  /\ pc = "json"
  /\ IF apiResponse.kind = "notJson"
     THEN Return(Reply(502, ErrorBody(MsgNonJson)))
     ELSE Goto("extract")
  /\ UNCHANGED <<event, apiKey, fetchCalls, upstreamRequest, apiResponse, body,
                 rawContent, parsed, questions, logged>>

\* rawContent = apiData.choices?.[0]?.message?.content || ''; if (!rawContent) ...
\* apiData.choices throws on null; a truthy content that is no string has no
\* replace method, so the cleaning throws.
ExtractContent ==
  /\ pc = "extract"
  /\ LET text == IF apiResponse.kind = "text" THEN CompletionText(apiResponse.completion)
                 ELSE <<>>
     IN  IF apiResponse.kind \in {"null", "numberContent"} THEN Throw /\ rawContent' = rawContent
         ELSE IF text = <<>>
         THEN Return(Reply(502, ErrorBody(MsgEmptyContent))) /\ rawContent' = text
         ELSE Goto("clean") /\ rawContent' = text
  /\ UNCHANGED <<event, apiKey, fetchCalls, upstreamRequest, apiResponse, body,
                 parsed, questions, logged>>

\* cleaned = ...; parsed = JSON.parse(cleaned)
CleanAndParse ==
  /\ pc = "clean"
  /\ LET cleaned == CleanCompletion(rawContent)
         p == JSONParse(cleaned)
     IN  IF ~p.ok
         THEN /\ Return(Reply(500, ErrorBody(MsgInvalidJson)))
              /\ logged' = Substring(cleaned, 0, LogSnippetBudget)
              /\ parsed' = parsed
         ELSE Goto("shape") /\ parsed' = p.v /\ logged' = logged
  /\ UNCHANGED <<event, apiKey, fetchCalls, upstreamRequest, apiResponse, body,
                 rawContent, questions>>

\* if (!parsed.questions || !Array.isArray(parsed.questions))
CheckQuestions ==
  /\ pc = "shape"
  /\ IF IsNullish(parsed) THEN Throw
     ELSE IF ~HasQuestionsArray(parsed)
     THEN Return(Reply(500, ErrorBody(MsgMissingQuestions)))
     ELSE Goto("normalise")
  /\ UNCHANGED <<event, apiKey, fetchCalls, upstreamRequest, apiResponse, body,
                 rawContent, parsed, questions, logged>>

\* questions = parsed.questions.filter(...).map(...); viability check; success
Normalise ==
  /\ pc = "normalise"
  /\ questions' = NormalizeQuestions(Get(parsed, KeyQuestions).items)
  /\ Return(FinalReply(questions'))
  /\ UNCHANGED <<event, apiKey, fetchCalls, upstreamRequest, apiResponse, body,
                 rawContent, parsed, logged>>

Next ==
  \/ Preflight
  \/ MethodCheck
  \/ ParseRequest
  \/ ValidateContent
  \/ CheckApiKey
  \/ CallUpstream
  \/ CheckStatus
  \/ ReadJson
  \/ ExtractContent
  \/ CleanAndParse
  \/ CheckQuestions
  \/ Normalise

Spec == Init /\ [][Next]_vars

-----------------------------------------------------------------------------
(* Properties                                                              *)

Finished == pc \in {"returned", "threw"}
Success  == pc = "returned" /\ response.statusCode = 200 /\ response.body.kind = "result"
IsError(status) ==
  pc = "returned" /\ response.statusCode = status /\ response.body.kind = "error"

\* what this execution of the handler ended with
HandlerOutcome == IF pc = "threw" THEN Threw ELSE Returned(response)

\* the completion was parsed (JSON.parse never yields undefined)
CompletionParsed == parsed # Undefined
\* the filter and the map have run
Normalised == pc = "returned" /\ CompletionParsed /\ ~IsNullish(parsed) /\ HasQuestionsArray(parsed)
RawItems == Get(parsed, KeyQuestions).items

\* the request satisfies the method, body, content and credential requirements
RequestPasses ==
  /\ event.httpMethod = "POST"
  /\ LET p == JSONParse(RequestText(event)) IN
       /\ p.ok
       /\ Get(p.v, KeyContent).ty = "str"
       /\ Len(Trim(Get(p.v, KeyContent).s)) >= MinContentLength
  /\ KeyOk(apiKey)

\* One fetch at most, and only for a request that passed every check.
FetchOnlyAfterChecks ==
  /\ fetchCalls \in {0, 1}
  /\ fetchCalls = 1 => RequestPasses /\ upstreamRequest.sent
  /\ pc \in {"start", "parse", "validate", "checkKey", "fetch"} => fetchCalls = 0

\* C1: every execution ends by returning a response whose headers are
\* CORS_HEADERS; none ends in an uncaught exception.
C1_AlwaysRespondsWithCors ==
  Finished => pc = "returned" /\ response.headers = CORS_HEADERS

\* C2: in every success response each objective record has exactly 4 options
\* and an answer that is one of them.
C2_ObjectiveFourOptions ==
  Success =>
    \A k \in 1..Len(response.body.questions) :
      LET r == response.body.questions[k] IN
        r.type = TypeObjective =>
          Len(r.options) = MaxOptions /\ Includes(r.options, r.answer)

\* C3: in every success response the ids are 1..N in output order, N being both
\* total and the number of emitted questions; the k-th emitted question is the
\* k-th retained raw element, whatever id the raw elements carried and however
\* many elements were discarded before it.
C3_DenseIds ==
  Success =>
    LET qs   == response.body.questions
        kept == SelectSeq(RawItems, LAMBDA q :
                  Truthy(q) /\ Truthy(Get(q, KeyType))
                    /\ Truthy(Get(q, KeyQuestion)) /\ Truthy(Get(q, KeyAnswer)))
    IN  /\ response.body.total = Len(qs)
        /\ Len(qs) = Len(kept)
        /\ \A k \in 1..Len(qs) :
             /\ qs[k].id = k
             /\ qs[k].question = Trim(JsString(Get(kept[k], KeyQuestion)))

\* a success in which a discarded element precedes a retained one that carried
\* an id of its own, different from the one it gets
C3_Witness ==
  /\ Success
  /\ \E i, j \in 1..Len(RawItems) :
       /\ i < j
       /\ ~IsRetained(RawItems[i])
       /\ IsRetained(RawItems[j])
       /\ Get(RawItems[j], KeyId) = NumV(<<"9">>)
       /\ response.body.questions[j - 1].id = j - 1

\* C4: the fetch is attempted only after the method, body, content and
\* credential checks have passed; a request failing one of them is answered
\* with its 4xx or 5xx error response and no fetch is made for it.
C4_RejectedBeforeFetch ==
  /\ fetchCalls > 0 => RequestPasses
  /\ (Finished /\ event.httpMethod # "OPTIONS" /\ ~RequestPasses) =>
       /\ pc = "returned"
       /\ response.statusCode \in {400, 405, 500}
       /\ response.body.kind = "error"
       /\ fetchCalls = 0

\* the completion is the body wrapped in a fence after the leading prose
Fenced(c) == c.open # <<>> /\ c.close # <<>> /\ c.trail = <<>>

\* C5 as stated: for every JSON body and every leading prose, the fenced text
\* normalises to the outcome of the bare body.
C5_FencedAsBare_AnyProse ==
  (Finished /\ apiResponse.kind = "text" /\ Fenced(apiResponse.completion)
     /\ JSONParse(apiResponse.completion.body).ok)
  => HandlerOutcome = NormalizerOutcome(apiResponse.completion.body)

\* C5: for every JSON body B and every leading prose P without an opening
\* brace, where P is empty or B is a JSON object, the text P + fence + B +
\* fence normalises to the same outcome (same questions and total, or the
\* same failure) as B alone.
C5_FencedAsBare ==
  (Finished /\ apiResponse.kind = "text" /\ Fenced(apiResponse.completion)
     /\ JSONParse(apiResponse.completion.body).ok
     /\ IndexOf(apiResponse.completion.prose, "{") = -1
     /\ (apiResponse.completion.prose = <<>>
           \/ JSONParse(apiResponse.completion.body).v.ty = "obj"))
  => HandlerOutcome = NormalizerOutcome(apiResponse.completion.body)

\* a success on a tagged fence after non-empty prose
C5_Witness ==
  /\ Success
  /\ apiResponse.kind = "text"
  /\ Fenced(apiResponse.completion)
  /\ apiResponse.completion.prose = Chars(<<"H", "i", ":", "\n">>)
  /\ StartsWithJsonFence(apiResponse.completion.open)
  /\ apiResponse.completion.body = GoodBody
  /\ response.body.total = MinQuestions

\* C6: normalising the re-serialised success payload succeeds and yields the
\* same records.
C6_Idempotent ==
  Success =>
    LET again == NormalizerOutcome(JSONStringify(response.body)) IN
      /\ ~again.threw
      /\ again.response.statusCode = 200
      /\ again.response.body.questions = response.body.questions

\* C7: fewer retained elements than the viability threshold give the 500
\* response whose message states the retained count, never a success; every
\* success has total at least the threshold.
C7_Viability ==
  /\ Normalised =>
       LET n == Len(SelectSeq(RawItems, LAMBDA q :
                  Truthy(q) /\ Truthy(Get(q, KeyType))
                    /\ Truthy(Get(q, KeyQuestion)) /\ Truthy(Get(q, KeyAnswer))))
       IN  n < MinQuestions =>
             /\ IsError(500)
             /\ response.body.error =
                  <<"Only ">> \o Decimal(n)
                    \o <<" valid questions generated. Please paste more content and try again.">>
  /\ Success => response.body.total >= MinQuestions /\ Len(response.body.questions) >= MinQuestions

\* three retained elements out of more raw ones are reported as count 3
C7_Witness ==
  /\ Normalised
  /\ Len(RawItems) > 3
  /\ Len(questions) = 3
  /\ IsError(500)
  /\ response.body.error[2] = "3"

\* C8: a completion that parses to a value without a questions array (field
\* absent, not an array, or a top-level value that is no object, null included)
\* gets the 500 "missing questions" response and no questions are emitted.
C8_MissingQuestionsField ==
  (Finished /\ CompletionParsed /\ (IsNullish(parsed) \/ ~HasQuestionsArray(parsed)))
  => /\ IsError(500)
     /\ response.body.error = MsgMissingQuestions
     /\ questions = <<>>

\* the three-tier strategy: strip fences, parse directly, slice between the
\* first opening and the last closing brace only if the direct parse failed
ThreeTierParse(raw) ==
  LET c == StripFences(raw)
      d == JSONParse(c)
      s == IndexOf(c, "{")
      e == LastIndexOf(c, "}")
  IN  IF d.ok THEN d
      ELSE IF s >= 0 /\ e >= 0 /\ s < e THEN JSONParse(Substring(c, s, e + 1))
      ELSE [ok |-> FALSE, v |-> Undefined]

\* C9: the handler's parse stage gives, on every raw text, what the three-tier
\* strategy gives.
C9_ThreeTierParse ==
  (rawContent # <<>> /\ pc # "clean")
  => [ok |-> CompletionParsed, v |-> parsed] = ThreeTierParse(rawContent)

KindOf(type) ==
  IF type = StrV(TypeObjective) THEN TypeObjective
  ELSE IF type = StrV(TypeSubjective) THEN TypeSubjective
  ELSE TypeTheory

\* C10 as stated: every element with a non-empty question and answer is
\* emitted, as theory when its type tag is unrecognised or missing.
C10_MissingTypeIsTheory ==
  Normalised =>
    LET wanted == SelectSeq(RawItems, LAMBDA q :
                    Truthy(q) /\ Truthy(Get(q, KeyQuestion)) /\ Truthy(Get(q, KeyAnswer)))
    IN  /\ Len(questions) = Len(wanted)
        /\ \A k \in 1..Len(wanted) :
             /\ questions[k].type = KindOf(Get(wanted[k], KeyType))
             /\ questions[k].type = TypeTheory => Len(questions[k].keywords) <= MaxKeywords

\* C10: every element with a non-empty type tag, question and answer is
\* emitted: as objective or subjective when tagged so, as theory (keywords cut
\* to 10) for every other tag; an element whose type tag is missing or empty
\* is discarded.
C10_UnrecognisedTypeIsTheory ==
  Normalised =>
    LET wanted == SelectSeq(RawItems, LAMBDA q :
                    /\ Truthy(q) /\ Truthy(Get(q, KeyQuestion)) /\ Truthy(Get(q, KeyAnswer))
                    /\ Truthy(Get(q, KeyType)))
    IN  /\ Len(questions) = Len(wanted)
        /\ \A k \in 1..Len(wanted) :
             /\ questions[k].type = KindOf(Get(wanted[k], KeyType))
             /\ questions[k].question = Trim(JsString(Get(wanted[k], KeyQuestion)))
             /\ questions[k].type = TypeTheory => Len(questions[k].keywords) <= MaxKeywords

\* an element tagged "essay" with 11 keywords is emitted as theory with 10,
\* and an element without a type tag is dropped, in one success
C10_Witness ==
  /\ Success
  /\ \E i \in 1..Len(RawItems) :
       /\ Get(RawItems[i], KeyType) = StrV(<<"e", "s", "s", "a", "y">>)
       /\ Len(Get(RawItems[i], KeyKeywords).items) = MaxKeywords + 1
       /\ questions[i].type = TypeTheory
       /\ Len(questions[i].keywords) = MaxKeywords
  /\ \E i \in 1..Len(RawItems) :
       /\ Get(RawItems[i], KeyType) = Undefined
       /\ Truthy(Get(RawItems[i], KeyQuestion))
       /\ Truthy(Get(RawItems[i], KeyAnswer))
       /\ Len(questions) = Len(RawItems) - 1
====
